---- MODULE Spec2Model ----
(***************************************************************************)
(* A model of draftcheck's rule-evaluation and context-tracking engine:    *)
(* the environment stack and chunk splitter of Validator.validate          *)
(* (draftcheck/validator.py), the rule wrapper and the rule registry       *)
(* (draftcheck/rules.py) and the line loop of the script                   *)
(* (draftcheck/script.py).                                                 *)
(*                                                                         *)
(* A text is a sequence of one-character strings; indices and spans are    *)
(* 0-based and half-open, as in Python.                                    *)
(***************************************************************************)
EXTENDS Integers, Sequences, FiniteSets

VARIABLES
    envs,      \* Validator._envs, the environment stack (last element = top)
    pc,        \* the script's line loop: "idle", "called", "done", "crashed"
    line,      \* the line handed to validate
    err,       \* the exception the validate call raised, or "none"
    evals,     \* per chunk iteration: the chunk, its context, the offset in effect
    yielded,   \* what the validate call yielded, in order
    before,    \* history: the stack when validate was called
    pushed,    \* history: the tag the validate call appended, or "none"
    popped,    \* history: the tag the validate call popped, or "none"
    nbegin,    \* history: how many lines so far started with a begin marker
    nend,      \* history: how many lines so far started with an end marker
    balanced,  \* history: every prefix of the lines so far had nbegin >= nend
    printed,   \* what print_warning was given and printed, per violation of the line
    r_pc,      \* evaluation of the rules on one chunk: "start", "done", "off"
    r_text,    \* the chunk
    r_env,     \* the context it is evaluated in
    r_rules,   \* the positions in RULES_LIST of the rules evaluated
    r_res,     \* what the wrapper of each of these rules returned
    r_old,     \* what the duplicate-word rule of the one-file version returned
    rules_list, \* rules.RULES_LIST, the global list of the registered rules
    imp,       \* how many decorations of rules.py have run
    heap,      \* the list objects allocated for the stacks of Validator instances
    inst,      \* per instance: the list its _envs refers to, 0 before __init__
    given,     \* per instance: the lines validate was called with, in order
    out,       \* per instance: the outcome of its last validate call
    gens       \* the generator objects validate returned, in the order of the calls

docvars == <<envs, pc, line, err, evals, yielded, before, pushed, popped,
             nbegin, nend, balanced, printed>>
rulevars == <<r_pc, r_text, r_env, r_rules, r_res, r_old>>
regvars == <<rules_list, imp>>
instvars == <<heap, inst, given, out>>
libvars == <<instvars, gens>>
vars == <<docvars, rulevars, regvars, libvars>>

----------------------------------------------------------------------------
(* Bounds of the model *)

\* text lines are made of at most MaxLen tokens of TextTokens
MaxLen == 3
\* at most MaxBegin lines starting with a begin marker are read
MaxBegin == 2
\* validate is called at most MaxCalls times on one Validator instance
MaxCalls == 2
\* at most MaxGens results of validate are kept to be iterated when the
\* caller likes
MaxGens == 3
\* the chunks of the quote rules hold at most MaxChunk characters
MaxChunk == 5
\* the characters print_warning shows on each side of a violation
PadSize == 10
\* the chunks of the citation rule are made of at most MaxCite tokens
MaxCite == 4
\* the chunks of the duplicate-word rule hold at most MaxWords characters
MaxWords == 5

----------------------------------------------------------------------------
(* Texts *)

LowerCase == {"a","b","c","d","e","f","g","h","i","j","k","l","m",
              "n","o","p","q","r","s","t","u","v","w","x","y","z"}
UpperCase == {"A","B","C","D","E","F","G","H","I","J","K","L","M",
              "N","O","P","Q","R","S","T","U","V","W","X","Y","Z"}
Digits == {"0","1","2","3","4","5","6","7","8","9"}
\* the characters \w matches
WordChars == LowerCase \cup UpperCase \cup Digits \cup {"_"}
\* the characters \s matches
SpaceChars == {" ", "\t", "\n", "\r", "\f"}

\* text[i], or "" when i is outside the text
At(text, i) == IF i >= 0 /\ i < Len(text) THEN text[i + 1] ELSE ""
\* text[i:j]
Slice(text, i, j) == SubSeq(text, i + 1, j)
\* text[i:].startswith(p)
StartsWithAt(text, p, i) ==
    /\ i >= 0
    /\ i + Len(p) <= Len(text)
    /\ Slice(text, i, i + Len(p)) = p

RECURSIVE Concat(_)
\* ''.join(texts)
Concat(texts) ==
    IF texts = <<>> THEN <<>> ELSE Head(texts) \o Concat(Tail(texts))

\* the result of a failed match
NoMatch == <<>>
\* the end index of a failed match
Fail == -1

----------------------------------------------------------------------------
(* The environment tracker *)

MathEnvNames ==
    { <<"m","a","t","h">>, <<"a","r","r","a","y">>,
      <<"e","q","n","a","r","r","a","y">>,
      <<"e","q","u","a","t","i","o","n">>, <<"a","l","i","g","n">> }
ParagraphEnvNames ==
    { <<"a","b","s","t","r","a","c","t">>,
      <<"d","o","c","u","m","e","n","t">>,
      <<"t","i","t","l","e","p","a","g","e">> }

\* the inverted name -> tag dictionary
LATEX_ENVS ==
    [k \in MathEnvNames \cup ParagraphEnvNames |->
        IF k \in MathEnvNames THEN "math" ELSE "paragraph"]

\* faulty variant: names outside the dictionary are taken for prose
EnvOf_DefaultParagraph(name) ==
    IF name \in DOMAIN LATEX_ENVS THEN LATEX_ENVS[name] ELSE "paragraph"

\* LATEX_ENVS.get(name, 'unknown')
EnvOf(name) ==
    IF name \in DOMAIN LATEX_ENVS THEN LATEX_ENVS[name] ELSE "unknown"

BeginPrefix == <<"\\","b","e","g","i","n","{">>
EndPrefix == <<"\\","e","n","d","{">>

RECURSIVE WordRun(_, _)
\* the length of the longest run of \w characters of text from index i
WordRun(text, i) ==
    IF At(text, i) \in WordChars THEN 1 + WordRun(text, i + 1) ELSE 0

\* faulty variant: regex.search(text), the first marker anywhere in the text
MatchEnv_Search(prefix, text) ==
    LET found == { i \in 0..(Len(text) - 1) :
                     /\ StartsWithAt(text, prefix, i)
                     /\ WordRun(text, i + Len(prefix)) >= 1
                     /\ At(text, i + Len(prefix) + WordRun(text, i + Len(prefix))) = "}" }
    IN IF found = {} THEN NoMatch
       ELSE LET i == CHOOSE x \in found : \A y \in found : x <= y
            IN Slice(text, i + Len(prefix), i + Len(prefix) + WordRun(text, i + Len(prefix)))

\* regex.match(text) of prefix(\w+)} : group(1), or NoMatch. The match is
\* anchored at index 0; \w+ is followed by "}", which is no \w character, so
\* only the longest run can match.
MatchEnv(prefix, text) ==
    IF StartsWithAt(text, prefix, 0)
    THEN LET n == WordRun(text, Len(prefix)) IN
         IF n >= 1 /\ At(text, Len(prefix) + n) = "}"
         THEN Slice(text, Len(prefix), Len(prefix) + n)
         ELSE NoMatch
    ELSE NoMatch

env_begin_regex(text) == MatchEnv(BeginPrefix, text)
env_end_regex(text) == MatchEnv(EndPrefix, text)

----------------------------------------------------------------------------
(* The chunk splitter *)

MathOpeners == << <<"$","$">>, <<"$">>, <<"\\","[">> >>
MathClosers == << <<"$","$">>, <<"$">>, <<"\\","]">> >>

RECURSIVE FirstAlt(_, _, _, _)
\* the first alternative of alts, from the k-th on, that text has at index i
\* (its index in alts), or 0
FirstAlt(alts, text, i, k) ==
    IF k > Len(alts) THEN 0
    ELSE IF StartsWithAt(text, alts[k], i) THEN k
    ELSE FirstAlt(alts, text, i, k + 1)

RECURSIVE LazyBody(_, _, _)
\* .+? followed by a closer, the body starting at index start: the end of
\* the match with the shortest body of n or more characters, or Fail.
\* "." matches no newline.
LazyBody(text, start, n) ==
    IF start + n > Len(text) \/ At(text, start + n - 1) = "\n" THEN Fail
    ELSE LET c == FirstAlt(MathClosers, text, start + n, 1) IN
         IF c # 0 THEN start + n + Len(MathClosers[c])
         ELSE LazyBody(text, start, n + 1)

RECURSIVE MathMatchFrom(_, _, _)
\* math_env_regex matched at index i, trying the openers from the k-th on:
\* the end of the match, or Fail
MathMatchFrom(text, i, k) ==
    IF k > Len(MathOpeners) THEN Fail
    ELSE LET e == IF StartsWithAt(text, MathOpeners[k], i)
                  THEN LazyBody(text, i + Len(MathOpeners[k]), 1)
                  ELSE Fail
         IN IF e # Fail THEN e ELSE MathMatchFrom(text, i, k + 1)

RECURSIVE SplitFrom(_, _, _)
\* math_env_regex.split(text), from the end of the previous match (last),
\* searching from index i. The pattern is one capturing group, so the
\* matched text is kept, between the texts around it.
SplitFrom(text, last, i) ==
    IF i >= Len(text) THEN << Slice(text, last, Len(text)) >>
    ELSE LET e == MathMatchFrom(text, i, 1) IN
         IF e = Fail THEN SplitFrom(text, last, i + 1)
         ELSE << Slice(text, last, i), Slice(text, i, e) >> \o SplitFrom(text, e, e)

math_env_regex_split(text) == SplitFrom(text, 0, 0)

----------------------------------------------------------------------------
(* The rule registry *)

\* one decoration: the decorated function (which names its pattern), the row
\* of the table for a rule of a generated family (0 otherwise), and the
\* decorator's arguments
Decl(f, row, env, spaces) ==
    [pattern |-> f, row |-> row, in_env |-> env, show_spaces |-> spaces]

\* the rows of a @rule_generator family, in the order its table yields them
Family(f, n) == [row \in 1..n |-> Decl(f, row, "paragraph", FALSE)]

\* the decorations of rules.py, in the order the module runs them
Decorations ==
    << Decl("check_space_before_footnote", 0, "paragraph", TRUE),
       Decl("check_cite_after_period", 0, "paragraph", FALSE),
       Decl("check_cite_used_as_noun", 0, "paragraph", FALSE),
       Decl("check_no_space_before_cite", 0, "paragraph", FALSE),
       Decl("check_no_space_before_ref", 0, "paragraph", FALSE),
       Decl("check_unescaped_percentage", 0, "paragraph", FALSE),
       Decl("check_space_before_punctuation", 0, "paragraph", TRUE),
       Decl("check_no_space_next_to_parentheses", 0, "paragraph", TRUE),
       Decl("check_incorrect_usage_of_x_as_times", 0, "paragraph", FALSE),
       Decl("check_space_surrounded_dash", 0, "paragraph", FALSE),
       Decl("check_duplicate_word", 0, "paragraph", FALSE),
       Decl("check_dot_dot_dot", 0, "paragraph", FALSE),
       Decl("check_double_quote", 0, "paragraph", FALSE),
       Decl("check_single_quote", 0, "paragraph", FALSE),
       Decl("check_begin_center", 0, "any", FALSE),
       Decl("check_double_dollar_math", 0, "math", FALSE),
       Decl("check_numeric_range_dash", 0, "paragraph", FALSE),
       Decl("check_footnote_before_punctuation", 0, "paragraph", FALSE),
       Decl("check_relational_operators", 0, "math", FALSE),
       Decl("check_multiple_cite", 0, "paragraph", FALSE),
       Decl("check_number_next_to_unit", 0, "paragraph", FALSE),
       Decl("check_unescaped_named_math_operators", 0, "math", FALSE),
       Decl("check_abbreviation_innerword_spacing", 0, "paragraph", FALSE),
       Decl("check_def_command", 0, "paragraph", FALSE),
       Decl("check_sloppy_command", 0, "paragraph", FALSE),
       Decl("check_triple_quote", 0, "paragraph", FALSE),
       Decl("check_unspelt_ordinal_numbers", 0, "paragraph", FALSE),
       Decl("check_unspelt_single_digit_numbers", 0, "paragraph", FALSE),
       Decl("check_dot_dot_dot_maths", 0, "math", FALSE),
       Decl("check_bare_urls", 0, "paragraph", FALSE),
       Decl("check_double_space", 0, "paragraph", FALSE) >>
    \o Family("check_incorrect_abbreviations", 5)
    \o Family("check_obsolete_commands", 9)
    \o Family("check_obsolete_packages", 13)
    \o Family("check_obsolete_environments", 2)

\* a piece of a docstring: a literal text, the replacement field {0}, the
\* text of a replacement, or the whole docstring of a function
Piece(kind, of, n) == [kind |-> kind, of |-> of, n |-> n]

\* func.__doc__ of a directly decorated function; generated_rule has none
Docstring(d) ==
    IF d.row = 0 THEN << Piece("docstring", d.pattern, 0) >> ELSE <<>>

\* func.__doc__ of the table function of a family
Template(f) ==
    CASE f = "check_incorrect_abbreviations" ->
            << Piece("text", "Punctuate abbreviations correctly. Should be \"", 0),
               Piece("field", "", 0), Piece("text", "\".", 0) >>
      [] f = "check_obsolete_commands" ->
            << Piece("text", "Use the \\", 0), Piece("field", "", 0),
               Piece("text", " command instead.", 0) >>
      [] f = "check_obsolete_packages" ->
            << Piece("text", "Avoid obsolete packages. Use ", 0),
               Piece("field", "", 0), Piece("text", " instead.", 0) >>
      [] f = "check_obsolete_environments" ->
            << Piece("text", "Use the ", 0), Piece("field", "", 0),
               Piece("text", " instead.", 0) >>

\* the k-th row the table function of a family yields: r[0], the pattern,
\* and r[1], the replacement. A table yields the rows of a dict in the
\* order the dict iterates, so a row is known here by its rank.
TableRow(f, k) == << Piece("pattern", f, k), Piece("replacement", f, k) >>

\* template.format(*args): every field {0} becomes args[0]
Format(template, args) ==
    [j \in 1..Len(template) |->
        IF template[j].kind = "field" THEN args[template[j].n + 1]
        ELSE template[j]]

\* faulty variant: the wrappers are numbered from 0
Register_FromZero(list, d) ==
    Append(list, [id |-> Len(list), pattern |-> d.pattern, row |-> d.row,
                  in_env |-> d.in_env, show_spaces |-> d.show_spaces,
                  doc |-> Docstring(d)])

\* rule(...)(func): the wrapper gets the next id and the docstring of func,
\* and is appended to the list
Register(list, d) ==
    Append(list, [id |-> Len(list) + 1, pattern |-> d.pattern, row |-> d.row,
                  in_env |-> d.in_env, show_spaces |-> d.show_spaces,
                  doc |-> Docstring(d)])

\* faulty variant: every rule of a family gets the docstring of its first row
GeneratedRule_FirstRow(list, d) ==
    LET r == TableRow(d.pattern, d.row)
        registered == Register(list, Decl(r[1].of, r[1].n, d.in_env, d.show_spaces))
    IN [registered EXCEPT ![Len(registered)].doc =
            Format(Template(d.pattern), Tail(TableRow(d.pattern, 1)))]

\* one iteration of for r in func() of rule_generator: generated_rule is
\* registered for the pattern r[0], then the docstring of the last rule of
\* the list becomes the template formatted with r[1:]
GeneratedRule(list, d) ==
    LET r == TableRow(d.pattern, d.row)
        registered == Register(list, Decl(r[1].of, r[1].n, d.in_env, d.show_spaces))
    IN [registered EXCEPT ![Len(registered)].doc =
            Format(Template(d.pattern), Tail(r))]

\* one decoration: a rule, or a row of a family
Decorate(list, d) ==
    IF d.row = 0 THEN Register(list, d) ELSE GeneratedRule(list, d)

RECURSIVE RegisterAll(_, _)
\* each decoration runs on the list the earlier ones have built
RegisterAll(list, ds) ==
    IF Len(list) >= 0 /\ ds = <<>> THEN list
    ELSE RegisterAll(Decorate(list, Head(ds)), Tail(ds))

\* the global rules list once rules.py is imported
RULES_LIST == RegisterAll(<<>>, Decorations)

----------------------------------------------------------------------------
(* The patterns of the rules *)

BeginCenter == <<"\\","b","e","g","i","n","{","c","e","n","t","e","r","}">>

RECURSIVE RunOf(_, _, _)
\* the length of the longest run of characters of class from index i
RunOf(class, text, i) ==
    IF At(text, i) \in class THEN 1 + RunOf(class, text, i + 1) ELSE 0

\* \b at index i: exactly one of text[i-1], text[i] is a \w character
WordBoundary(text, i) ==
    (At(text, i - 1) \in WordChars) # (At(text, i) \in WordChars)

\* (?![^{]*}) at index i: no "}" follows that has no "{" between i and it
NotBeforeBrace(text, i) ==
    ~ \E j \in i..(Len(text) - 1) :
        /\ At(text, j) = "}"
        /\ \A h \in i..(j - 1) : At(text, h) # "{"

\* \b([a-z]+)\s+\1\b(?![^{]*}) at index i. [a-z]+ and \s+ are greedy; a
\* shorter word is followed by a letter and shorter spaces by a space, where
\* \s+ and \1 cannot match, so only the longest runs can.
DuplicateWordAt(text, i) ==
    LET w == RunOf(LowerCase, text, i)
        s == RunOf(SpaceChars, text, i + w)
        q == i + w + s + w
    IN IF /\ WordBoundary(text, i)
          /\ w >= 1
          /\ s >= 1
          /\ StartsWithAt(text, Slice(text, i, i + w), i + w + s)
          /\ WordBoundary(text, q)
          /\ NotBeforeBrace(text, q)
       THEN q ELSE Fail

\* \b([a-z]+)\s([a-z]+)\b(?![^{]*}) at index i, the pattern of the one-file
\* version (draftcheck.py). Both [a-z]+ are greedy; a shorter first word is
\* followed by a letter, where \s cannot match, and a shorter second word by
\* a letter, where \b cannot match, so only the longest runs can.
AdjacentWordsAt(text, i) ==
    LET w == RunOf(LowerCase, text, i)
        v == RunOf(LowerCase, text, i + w + 1)
        q == i + w + 1 + v
    IN IF /\ WordBoundary(text, i)
          /\ w >= 1
          /\ At(text, i + w) \in SpaceChars
          /\ v >= 1
          /\ WordBoundary(text, q)
          /\ NotBeforeBrace(text, q)
       THEN q ELSE Fail

\* m.group(1) == m.group(2) for the match of that pattern with span sp
SameGroups(text, sp) ==
    LET w == RunOf(LowerCase, text, sp[1])
    IN Slice(text, sp[1], sp[1] + w) = Slice(text, sp[1] + w + 1, sp[2])

RECURSIVE SingleQuoteBody(_, _, _)
\* .+?'[\s\.,] with the body starting at index start: the end of the match
\* with the shortest body of n or more characters, or Fail
SingleQuoteBody(text, start, n) ==
    IF start + n > Len(text) \/ At(text, start + n - 1) = "\n" THEN Fail
    ELSE IF /\ At(text, start + n) = "'"
            /\ At(text, start + n + 1) \in SpaceChars \cup {".", ","}
         THEN start + n + 2
         ELSE SingleQuoteBody(text, start, n + 1)

\* faulty variant: every single quotation mark is a match, as for the double one
SingleQuoteAt_EveryMark(text, i) ==
    IF At(text, i) = "'" THEN i + 1 ELSE Fail

\* faulty variant: the \s before the opening mark is forgotten
SingleQuoteAt_NoSpace(text, i) ==
    IF At(text, i) = "'" THEN SingleQuoteBody(text, i + 1, 1) ELSE Fail

\* \s'.+?'[\s\.,] at index i
SingleQuoteAt(text, i) ==
    IF At(text, i) \in SpaceChars /\ At(text, i + 1) = "'"
    THEN SingleQuoteBody(text, i + 2, 1)
    ELSE Fail

PeriodCite == <<".","\\","c","i","t","e","{">>

\* faulty variant: the period is not escaped, and stands for any character
\* but a newline
CiteAfterPeriodAt_AnyChar(text, i) ==
    IF /\ At(text, i) \notin {"", "\n"}
       /\ StartsWithAt(text, Tail(PeriodCite), i + 1)
    THEN i + Len(PeriodCite) ELSE Fail

\* \.\\cite{ at index i
CiteAfterPeriodAt(text, i) ==
    IF StartsWithAt(text, PeriodCite, i) THEN i + Len(PeriodCite) ELSE Fail

\* the patterns that are modelled
ModelledPatterns ==
    {"check_cite_after_period", "check_duplicate_word", "check_double_quote",
     "check_single_quote", "check_begin_center", "check_double_dollar_math"}

\* the pattern of a rule matched at index i: the end of the match, or Fail
MatchAt(pattern, text, i) ==
    CASE pattern = "check_cite_after_period" -> CiteAfterPeriodAt(text, i)
      [] pattern = "check_duplicate_word" -> DuplicateWordAt(text, i)
      [] pattern = "draftcheck.check_duplicate_word" -> AdjacentWordsAt(text, i)
      [] pattern = "check_double_quote" ->
            IF At(text, i) = "\"" THEN i + 1 ELSE Fail
      [] pattern = "check_single_quote" -> SingleQuoteAt(text, i)
      [] pattern = "check_begin_center" ->
            IF StartsWithAt(text, BeginCenter, i) THEN i + Len(BeginCenter) ELSE Fail
      [] pattern = "check_double_dollar_math" ->
            IF i = 0 /\ StartsWithAt(text, <<"$","$">>, 0) THEN 2 ELSE Fail
      [] OTHER -> Fail

RECURSIVE FindIter(_, _, _)
\* [m.span() for m in regexpr.finditer(text)], searching from index i: the
\* leftmost match that starts at or after i, then the matches from its end
\* (no pattern of the rules matches the empty text)
FindIter(pattern, text, i) ==
    LET starts == { j \in i..(Len(text) - 1) : MatchAt(pattern, text, j) # Fail }
    IN IF starts = {} THEN <<>>
       ELSE LET j == CHOOSE x \in starts : \A y \in starts : x <= y
                e == MatchAt(pattern, text, j)
            IN << <<j, e>> >> \o FindIter(pattern, text, e)

\* the decorated function: every rule returns the span of every match.
\* A pattern outside ModelledPatterns needs a character that no line of
\* Lines and no chunk of PlainTexts holds, so it matches nowhere in them;
\* on the other chunks only the rules of ModelledRules are evaluated.
Func(rule, text) ==
    IF rule.pattern \in ModelledPatterns
    THEN FindIter(rule.pattern, text, 0)
    ELSE <<>>

\* check_duplicate_word of the one-file version, through its wrapper
\* (if env == in_env, with in_env = 'paragraph'): the spans of the matches
\* whose two groups are equal
OldDuplicateWord(text, env) ==
    IF env = "paragraph"
    THEN SelectSeq(FindIter("draftcheck.check_duplicate_word", text, 0),
                   LAMBDA sp : SameGroups(text, sp))
    ELSE <<>>

\* faulty variant: the wrapper without the 'any' context
Wrapper_NoAny(rule, text, env) ==
    IF env = rule.in_env
    THEN [ran |-> TRUE, spans |-> Func(rule, text)]
    ELSE [ran |-> FALSE, spans |-> <<>>]

\* wrapper(text, env): whether the pattern was run, and the spans returned
Wrapper(rule, text, env) ==
    IF rule.in_env = "any" \/ env = rule.in_env
    THEN [ran |-> TRUE, spans |-> Func(rule, text)]
    ELSE [ran |-> FALSE, spans |-> <<>>]

----------------------------------------------------------------------------
(* Validator.validate *)

\* self._envs.append(tag)
Push(stack, tag) == Append(stack, tag)
\* self._envs.pop(), the stack not being empty
Pop(stack) == SubSeq(stack, 1, Len(stack) - 1)
\* self._envs[-1], the stack not being empty
Top(stack) == stack[Len(stack)]

\* the tag a begin marker at the start of the text maps to, or "none"
BeginTag(text) ==
    IF env_begin_regex(text) # NoMatch THEN EnvOf(env_begin_regex(text)) ELSE "none"

\* the stack after the begin marker of the text, if it starts with one
AfterBegin(stack, text) ==
    IF BeginTag(text) # "none" THEN Push(stack, BeginTag(text)) ELSE stack

\* faulty variant: an end marker pops only an entry that its own name maps to
AfterEnd_Matching(stack, text) ==
    IF env_end_regex(text) = NoMatch
    THEN [envs |-> stack, popped |-> "none", err |-> "none"]
    ELSE IF stack = <<>>
         THEN [envs |-> stack, popped |-> "none", err |-> "IndexError"]
         ELSE IF EnvOf(env_end_regex(text)) = Top(stack)
              THEN [envs |-> Pop(stack), popped |-> Top(stack), err |-> "none"]
              ELSE [envs |-> stack, popped |-> "none", err |-> "none"]

\* the stack after the end marker of the text, if it starts with one, the
\* tag popped, and the IndexError of a pop from an empty list
AfterEnd(stack, text) ==
    IF env_end_regex(text) = NoMatch
    THEN [envs |-> stack, popped |-> "none", err |-> "none"]
    ELSE IF stack = <<>>
         THEN [envs |-> stack, popped |-> "none", err |-> "IndexError"]
         ELSE [envs |-> Pop(stack), popped |-> Top(stack), err |-> "none"]

\* the update of the stack from the marker the text starts with
TrackerUpdate(stack, text) == AfterEnd(AfterBegin(stack, text), text)

\* faulty variant: inline math is looked for inside a math environment too
SplitChunks_Always(top, text) == math_env_regex_split(text)

\* the chunks of the text under the context top
SplitChunks(top, text) ==
    IF top = "math" THEN << <<>>, text >> ELSE math_env_regex_split(text)

\* the k-th element (from 1) of itertools.cycle([top, 'math'])
ChunkEnv(top, k) == IF k % 2 = 1 THEN top ELSE "math"

\* faulty variant: only the start of the span is moved
OffsettedSpan_StartOnly(span, offset) == <<span[1] + offset, span[2]>>

\* the span of a chunk moved to the line
OffsettedSpan(span, offset) == <<span[1] + offset, span[2] + offset>>

\* faulty variant: offset = len(chunk)
NextOffset_Reset(offset, chunk) == Len(chunk)

\* offset += len(chunk)
NextOffset(offset, chunk) == offset + Len(chunk)

\* what is yielded for the spans a rule returned on the k-th chunk
YieldSpans(rule, spans, k, offset) ==
    [j \in 1..Len(spans) |->
        [rule |-> rule.id, span |-> OffsettedSpan(spans[j], offset),
         chunk |-> k, rel |-> spans[j]]]

\* the rules of RULES_LIST, in its order, whose pattern is modelled; every
\* other rule returns [] on every chunk of a line of Lines and yields nothing
MatchingRules ==
    SelectSeq(RULES_LIST, LAMBDA rule : rule.pattern \in ModelledPatterns)

RECURSIVE RuleLoop_Reversed(_, _, _, _, _)
\* faulty variant: the rules are run from the last registered to the first
RuleLoop_Reversed(chunk, env, k, offset, r) ==
    IF r > Len(MatchingRules) THEN <<>>
    ELSE RuleLoop_Reversed(chunk, env, k, offset, r + 1)
         \o YieldSpans(MatchingRules[r], Wrapper(MatchingRules[r], chunk, env).spans,
                       k, offset)

RECURSIVE RuleLoop(_, _, _, _, _)
\* for rule in rules.RULES_LIST, from the r-th matching rule on, on the
\* k-th chunk
RuleLoop(chunk, env, k, offset, r) ==
    IF r > Len(MatchingRules) THEN <<>>
    ELSE YieldSpans(MatchingRules[r], Wrapper(MatchingRules[r], chunk, env).spans,
                    k, offset)
         \o RuleLoop(chunk, env, k, offset, r + 1)

RECURSIVE ChunkLoop(_, _, _, _)
\* for chunk, chunk_env in zip(chunks, chunk_envs), from the k-th chunk on:
\* per chunk, the chunk, its context, the offset in effect and what is
\* yielded
ChunkLoop(chs, top, k, offset) ==
    IF k > Len(chs) THEN <<>>
    ELSE << [chunk |-> chs[k], env |-> ChunkEnv(top, k), offset |-> offset,
             yielded |-> RuleLoop(chs[k], ChunkEnv(top, k), k, offset, 1)] >>
         \o ChunkLoop(chs, top, k + 1, NextOffset(offset, chs[k]))

RECURSIVE YieldedOf(_)
\* what the iterations yield, in order
YieldedOf(loop) ==
    IF loop = <<>> THEN <<>> ELSE Head(loop).yielded \o YieldedOf(Tail(loop))

\* the chunk, context and offset of each iteration
EvalsOf(loop) ==
    [k \in 1..Len(loop) |->
        [chunk |-> loop[k].chunk, env |-> loop[k].env, offset |-> loop[k].offset]]

\* faulty variant: a line that starts with a begin marker is split and
\* evaluated under the context the marker was found in
Evaluate_BeforeUpdate(stack, text) ==
    IF stack = <<>> THEN [err |-> "IndexError", loop |-> <<>>]
    ELSE LET top == IF env_begin_regex(text) # NoMatch /\ Len(stack) >= 2
                    THEN Top(Pop(stack)) ELSE Top(stack)
         IN [err |-> "none",
             loop |-> ChunkLoop(SplitChunks(top, text), top, 1, 0)]

\* the body of validate after the tracker update, the stack being stack:
\* self._envs[-1] raises IndexError on an empty stack
Evaluate(stack, text) ==
    IF stack = <<>> THEN [err |-> "IndexError", loop |-> <<>>]
    ELSE [err |-> "none",
          loop |-> ChunkLoop(SplitChunks(Top(stack), text), Top(stack), 1, 0)]

----------------------------------------------------------------------------
(* The lines read *)

TextTokens == { <<"$">>, <<"\\","[">>, <<"\\","]">>, <<"\"">>, <<"a">>, <<" ">> }

\* every text of 1 to MaxLen tokens
TextLines ==
    { Concat(ts) : ts \in UNION { [1..n -> TextTokens] : n \in 1..MaxLen } }

\* environment names outside LATEX_ENVS
OtherEnvNames == { <<"f","i","g","u","r","e">>, <<"c","e","n","t","e","r">>, <<"x">> }
EnvNames == MathEnvNames \cup ParagraphEnvNames \cup OtherEnvNames
\* the names whose markers also come with text around them
VariedEnvNames == { <<"m","a","t","h">>, <<"c","e","n","t","e","r">> }

BeginLine(name) == BeginPrefix \o name \o <<"}">>
EndLine(name) == EndPrefix \o name \o <<"}">>
Markers(names) == { BeginLine(n) : n \in names } \cup { EndLine(n) : n \in names }

\* lines that start with a marker, alone, followed by text, or ended by the
\* newline of the file
MarkerLines ==
    Markers(EnvNames)
    \cup UNION { { m \o <<"\"">>, m \o <<"$","a","$">>, m \o <<"\n">> } :
                 m \in Markers(VariedEnvNames) }

\* lines whose marker is no marker: not at index 0, or malformed
NearMarkerLines ==
    UNION { { <<" ">> \o m, <<"a">> \o m, <<"\"">> \o m } :
            m \in Markers(VariedEnvNames) }
    \cup { BeginPrefix \o <<"}">>, EndPrefix \o <<"}">>,
           BeginPrefix \o <<"m","a","t","h">>,
           BeginPrefix \o <<"m","a"," ","t","h","}">> }

\* longer lines, with several chunks and several violations
ScenarioLines ==
    { <<"a"," ","a">>,
      <<"a"," ","a"," ","\"","$","$","a","$","$","\"","\"","\n">>,
      <<"\"","$","a","$","\"","\\","[","a","\\","]","a"," ","a">>,
      <<"$","$","a","$","$","$","$","a","$","$">>,
      <<"$","a","\n">> }

Lines == TextLines \cup MarkerLines \cup NearMarkerLines \cup ScenarioLines

IsBeginLine(text) == env_begin_regex(text) # NoMatch
IsEndLine(text) == env_end_regex(text) # NoMatch

----------------------------------------------------------------------------
(* The warnings of the script *)

\* text[i:j] for i, j >= 0, which Python clips to the text
PySlice(text, i, j) ==
    LET a == IF i > Len(text) THEN Len(text) ELSE i
        b == IF j > Len(text) THEN Len(text) ELSE j
    IN IF a >= b THEN <<>> ELSE SubSeq(text, a + 1, b)

RECURSIVE LStrip(_)
LStrip(text) ==
    IF text # <<>> /\ Head(text) \in SpaceChars THEN LStrip(Tail(text)) ELSE text

RECURSIVE RStrip(_)
RStrip(text) ==
    IF text # <<>> /\ text[Len(text)] \in SpaceChars
    THEN RStrip(SubSeq(text, 1, Len(text) - 1)) ELSE text

\* line.strip()
Strip(text) == RStrip(LStrip(text))

\* pad_string(text, span, size): the text shown and the index in it of the
\* text of the span
pad_string(text, span, size) ==
    LET left_str == PySlice(text, IF span[1] - size > 0 THEN span[1] - size ELSE 0,
                            span[1])
        right_str == PySlice(text, span[2],
                             IF Len(text) < span[2] + size THEN Len(text)
                             ELSE span[2] + size)
        dots == <<".", ".", ".">>
    IN [padded_str |->
            (IF Len(left_str) = size THEN dots ELSE <<>>)
            \o left_str \o PySlice(text, span[1], span[2]) \o right_str
            \o (IF Len(right_str) = size THEN dots ELSE <<>>),
        start_index |-> Len(left_str) + (IF Len(left_str) = size THEN 3 ELSE 0)]

\* padded_str.replace(' ', '_')
ShowSpaces(text) == [i \in 1..Len(text) |-> IF text[i] = " " THEN "_" ELSE text[i]]

\* print_warning(fname, lineno, text, span, rule, args): the text and the
\* span it was given, the column of the prefix, the excerpt printed, the
\* index in the excerpt of the first caret and the number of carets
print_warning(text, span, rule) ==
    LET p == pad_string(text, span, PadSize)
    IN [text |-> text,
        span |-> span,
        column |-> span[1],
        excerpt |-> IF rule.show_spaces THEN ShowSpaces(p.padded_str)
                    ELSE p.padded_str,
        caret_index |-> p.start_index,
        carets |-> span[2] - span[1],
        id |-> rule.id]

\* for rule, span in validator.validate(line):
\*     print_warning(fname, lineno, line.strip(), span, rule, args)
PrintWarnings(text, ys) ==
    [i \in 1..Len(ys) |->
        print_warning(Strip(text), ys[i].span, RULES_LIST[ys[i].rule])]

----------------------------------------------------------------------------
(* Validator instances used side by side *)

Instances == {"A", "B"}

\* no instance is constructed, no generator is pending
LibOff ==
    /\ heap = <<>>
    /\ inst = [v \in Instances |-> 0]
    /\ given = [v \in Instances |-> <<>>]
    /\ out = [v \in Instances |-> [err |-> "none", yielded |-> <<>>]]
    /\ gens = <<>>

----------------------------------------------------------------------------
(* The script: one validator per file, one validate call per line *)

RulesOff ==
    /\ r_pc = "off"
    /\ r_text = <<>>
    /\ r_env = "none"
    /\ r_rules = {}
    /\ r_res = <<>>
    /\ r_old = <<>>

Init ==
    /\ envs = <<"paragraph">>
    /\ pc = "idle"
    /\ line = <<>>
    /\ err = "none"
    /\ evals = <<>>
    /\ yielded = <<>>
    /\ before = <<>>
    /\ pushed = "none"
    /\ popped = "none"
    /\ nbegin = 0
    /\ nend = 0
    /\ balanced = TRUE
    /\ printed = <<>>
    /\ RulesOff
    /\ rules_list = RULES_LIST
    /\ imp = Len(Decorations)
    /\ LibOff

\* for lineno, line in enumerate(infile): the next line is read
ReadLine(text) ==
    /\ pc = "idle"
    /\ IsBeginLine(text) => nbegin < MaxBegin
    /\ line' = text
    /\ pc' = "called"
    /\ UNCHANGED <<envs, err, evals, yielded, before, pushed, popped,
                   nbegin, nend, balanced, printed>>
    /\ UNCHANGED <<rulevars, regvars, libvars>>

\* validator.validate(line), iterated to its end by the for loop of the
\* script, which prints a warning for each violation; an IndexError ends
\* the script
Validate ==
    /\ pc = "called"
    /\ \E t \in { TrackerUpdate(envs, line) } :
       \E res \in { IF t.err = "none" THEN Evaluate(t.envs, line)
                    ELSE [err |-> t.err, loop |-> <<>>] } :
          /\ envs' = t.envs
          /\ popped' = t.popped
          /\ err' = res.err
          /\ evals' = EvalsOf(res.loop)
          /\ yielded' = YieldedOf(res.loop)
          /\ printed' = PrintWarnings(line, YieldedOf(res.loop))
          /\ pc' = IF res.err = "none" THEN "done" ELSE "crashed"
    /\ before' = envs
    /\ pushed' = BeginTag(line)
    /\ nbegin' = IF IsBeginLine(line) THEN nbegin + 1 ELSE nbegin
    /\ nend' = IF IsEndLine(line) THEN nend + 1 ELSE nend
    /\ balanced' = (balanced /\ (nbegin' >= nend'))
    /\ UNCHANGED line
    /\ UNCHANGED <<rulevars, regvars, libvars>>

\* the body of the for loop is over: back to reading the file
NextIteration ==
    /\ pc = "done"
    /\ pc' = "idle"
    /\ line' = <<>>
    /\ evals' = <<>>
    /\ yielded' = <<>>
    /\ before' = <<>>
    /\ pushed' = "none"
    /\ popped' = "none"
    /\ printed' = <<>>
    /\ UNCHANGED <<envs, err, nbegin, nend, balanced>>
    /\ UNCHANGED <<rulevars, regvars, libvars>>

Next ==
    \/ pc = "idle" /\ \E text \in Lines : ReadLine(text)
    \/ Validate
    \/ NextIteration

Spec == Init /\ [][Next]_vars

----------------------------------------------------------------------------
(* The rules evaluated on one chunk: for rule in RULES_LIST: rule(chunk, env) *)

Contexts == {"paragraph", "math", "unknown"}

\* the positions in RULES_LIST of the rules with a modelled pattern
ModelledRules ==
    { r \in 1..Len(RULES_LIST) : RULES_LIST[r].pattern \in ModelledPatterns }

QuoteChars == {"\"", "'", "a", " ", "."}

\* chunks of quotation marks, words, spaces and periods
QuoteTexts == UNION { [1..n -> QuoteChars] : n \in 0..MaxChunk }

CiteTokens ==
    { <<".">>, <<"\\","c","i","t","e","{">>, <<"~">>, <<"a">>, <<"}">>, <<" ">> }

\* the sentence and the citations of the examples of the citation rule
Sentence == <<"N","a","p","o","l","e","o","n","i","c"," ","w","a","r">>
CiteAfterPeriod == <<".","\\","c","i","t","e","{","s","m","i","t","h","0","8","}">>
CiteWithTie == <<"~","\\","c","i","t","e","{","s","m","i","t","h","0","8","}",".">>
CiteNoSpace == <<"\\","c","i","t","e","{","s","m","i","t","h","0","8","}",".">>

\* chunks of periods, citations and words, and the examples
CiteTexts ==
    { Concat(ts) : ts \in UNION { [1..n -> CiteTokens] : n \in 1..MaxCite } }
    \cup { Sentence \o CiteAfterPeriod, Sentence \o CiteWithTie,
           Sentence \o CiteNoSpace }

WordTextChars == {"a", "b", " ", "{", "}"}

\* chunks of words, spaces and braces
WordTexts == UNION { [1..n -> WordTextChars] : n \in 0..MaxWords }

\* chunks of the characters of the lines
PlainTexts == TextLines \cup { <<>>, BeginCenter, BeginCenter \o <<"\"">> }

InitRules ==
    /\ envs = <<"paragraph">>
    /\ pc = "off"
    /\ line = <<>>
    /\ err = "none"
    /\ evals = <<>>
    /\ yielded = <<>>
    /\ before = <<>>
    /\ pushed = "none"
    /\ popped = "none"
    /\ nbegin = 0
    /\ nend = 0
    /\ balanced = TRUE
    /\ printed = <<>>
    /\ r_pc = "start"
    /\ r_env \in Contexts
    /\ \/ r_text \in PlainTexts /\ r_rules = 1..Len(RULES_LIST)
       \/ r_text \in QuoteTexts \cup CiteTexts \cup WordTexts
          /\ r_rules = ModelledRules
    /\ r_res = <<>>
    /\ r_old = <<>>
    /\ rules_list = RULES_LIST
    /\ imp = Len(Decorations)
    /\ LibOff

\* every rule of r_rules is called on the chunk with the context
EvaluateRules ==
    /\ r_pc = "start"
    /\ r_res' = [r \in r_rules |-> Wrapper(RULES_LIST[r], r_text, r_env)]
    /\ r_old' = OldDuplicateWord(r_text, r_env)
    /\ r_pc' = "done"
    /\ UNCHANGED <<r_text, r_env, r_rules>>
    /\ UNCHANGED <<docvars, regvars, libvars>>

NextRules == EvaluateRules

SpecRules == InitRules /\ [][NextRules]_vars

----------------------------------------------------------------------------
(* The import of rules.py, decoration by decoration, then the script *)

\* the lines of the file read once the rules are registered
ImportLines == ScenarioLines \cup Markers(VariedEnvNames)

InitImport ==
    /\ envs = <<"paragraph">>
    /\ pc = "import"
    /\ line = <<>>
    /\ err = "none"
    /\ evals = <<>>
    /\ yielded = <<>>
    /\ before = <<>>
    /\ pushed = "none"
    /\ popped = "none"
    /\ nbegin = 0
    /\ nend = 0
    /\ balanced = TRUE
    /\ printed = <<>>
    /\ RulesOff
    /\ rules_list = <<>>
    /\ imp = 0
    /\ LibOff

\* @rule(...) def check_...: the next decoration of the module is a rule
ApplyRule ==
    /\ pc = "import"
    /\ imp < Len(Decorations)
    /\ Decorations[imp + 1].row = 0
    /\ rules_list' = Register(rules_list, Decorations[imp + 1])
    /\ imp' = imp + 1
    /\ UNCHANGED <<docvars, rulevars, libvars>>

\* @rule_generator() def check_...: the next row of the table of a family
GenerateRule ==
    /\ pc = "import"
    /\ imp < Len(Decorations)
    /\ Decorations[imp + 1].row > 0
    /\ rules_list' = GeneratedRule(rules_list, Decorations[imp + 1])
    /\ imp' = imp + 1
    /\ UNCHANGED <<docvars, rulevars, libvars>>

\* the module is imported: main starts
Imported ==
    /\ pc = "import"
    /\ imp = Len(Decorations)
    /\ pc' = "idle"
    /\ UNCHANGED <<envs, line, err, evals, yielded, before, pushed, popped,
                   nbegin, nend, balanced, printed>>
    /\ UNCHANGED <<rulevars, regvars, libvars>>

NextImport ==
    \/ ApplyRule
    \/ GenerateRule
    \/ Imported
    \/ pc = "idle" /\ \E text \in ImportLines : ReadLine(text)
    \/ Validate
    \/ NextIteration

SpecImport == InitImport /\ [][NextImport]_vars

----------------------------------------------------------------------------
(* Two Validator instances, their validate calls interleaved. The script
   makes one instance per file, one file after the other: A, then B. *)

\* the lines of the two documents
InstanceLines ==
    { BeginLine(<<"m","a","t","h">>), EndLine(<<"m","a","t","h">>),
      BeginLine(<<"c","e","n","t","e","r">>), <<"\"">> }

\* the scripts' variables are not used
DocOff ==
    /\ envs = <<>>
    /\ pc = "off"
    /\ line = <<>>
    /\ err = "none"
    /\ evals = <<>>
    /\ yielded = <<>>
    /\ before = <<>>
    /\ pushed = "none"
    /\ popped = "none"
    /\ nbegin = 0
    /\ nend = 0
    /\ balanced = TRUE
    /\ printed = <<>>

InitInstances ==
    /\ DocOff
    /\ RulesOff
    /\ rules_list = RULES_LIST
    /\ imp = Len(Decorations)
    /\ LibOff

\* faulty variant: _envs is one list, made once and shared by the instances
NewList_Shared(h) == 1

\* the list object that ['paragraph'] makes: a new one
NewList(h) == Len(h) + 1

\* v = Validator(): self._envs = ['paragraph']; A names the instance made
\* first
NewValidator(v) ==
    /\ inst[v] = 0
    /\ v = "B" => inst["A"] # 0
    /\ heap' = Append(heap, <<"paragraph">>)
    /\ inst' = [inst EXCEPT ![v] = NewList(heap)]
    /\ UNCHANGED <<given, out, gens>>
    /\ UNCHANGED <<docvars, rulevars, regvars>>

\* list(v.validate(text)): the call and the iteration of its result, on
\* the list that v._envs refers to
ValidateOn(v, text) ==
    /\ inst[v] # 0
    /\ Len(given[v]) < MaxCalls
    /\ \E t \in { TrackerUpdate(heap[inst[v]], text) } :
       \E res \in { IF t.err = "none" THEN Evaluate(t.envs, text)
                    ELSE [err |-> t.err, loop |-> <<>>] } :
          /\ heap' = [heap EXCEPT ![inst[v]] = t.envs]
          /\ out' = [out EXCEPT ![v] = [err |-> res.err,
                                        yielded |-> YieldedOf(res.loop)]]
    /\ given' = [given EXCEPT ![v] = Append(@, text)]
    /\ UNCHANGED <<inst, gens>>
    /\ UNCHANGED <<docvars, rulevars, regvars>>

NextInstances ==
    \/ \E v \in Instances : NewValidator(v)
    \/ \E v \in Instances : \E text \in InstanceLines : ValidateOn(v, text)

SpecInstances == InitInstances /\ [][NextInstances]_vars

----------------------------------------------------------------------------
(* One Validator whose caller keeps the results of validate and iterates
   them when it likes. validate has yield in its body: a call runs none of
   it and returns a generator; the body runs, to its first yield, on the
   first next(). *)

LazyLines ==
    { BeginLine(<<"m","a","t","h">>), EndLine(<<"m","a","t","h">>),
      <<"\"">>, <<"\"", "\"">> }

InitLazy ==
    /\ envs = <<"paragraph">>
    /\ pc = "off"
    /\ line = <<>>
    /\ err = "none"
    /\ evals = <<>>
    /\ yielded = <<>>
    /\ before = <<>>
    /\ pushed = "none"
    /\ popped = "none"
    /\ nbegin = 0
    /\ nend = 0
    /\ balanced = TRUE
    /\ printed = <<>>
    /\ RulesOff
    /\ rules_list = RULES_LIST
    /\ imp = Len(Decorations)
    /\ LibOff

\* g = validator.validate(text): the generator object is made, no statement
\* of the body runs
CallValidate(text) ==
    /\ Len(gens) < MaxGens
    /\ gens' = Append(gens, [line |-> text, state |-> "created",
                             context |-> "none", pending |-> <<>>])
    /\ UNCHANGED <<docvars, rulevars, regvars, instvars>>

\* the first next(g): the body runs from its start, the tracker update
\* first, to the first yield, to its end, or to an exception
StartGenerator(g) ==
    /\ g \in 1..Len(gens)
    /\ gens[g].state = "created"
    /\ \E t \in { TrackerUpdate(envs, gens[g].line) } :
       \E res \in { IF t.err = "none" THEN Evaluate(t.envs, gens[g].line)
                    ELSE [err |-> t.err, loop |-> <<>>] } :
       \E ys \in { YieldedOf(res.loop) } :
          /\ envs' = t.envs
          /\ gens' = [gens EXCEPT ![g] =
                [line |-> @.line,
                 state |-> IF res.err # "none" THEN "raised"
                           ELSE IF ys = <<>> THEN "finished" ELSE "suspended",
                 context |-> IF res.err # "none" THEN "none" ELSE Top(t.envs),
                 pending |-> IF ys = <<>> THEN <<>> ELSE Tail(ys)]]
    /\ UNCHANGED <<pc, line, err, evals, yielded, before, pushed, popped,
                   nbegin, nend, balanced, printed>>
    /\ UNCHANGED <<rulevars, regvars, instvars>>

\* a later next(g): the body goes on from the yield to the next one, or to
\* its end
ResumeGenerator(g) ==
    /\ g \in 1..Len(gens)
    /\ gens[g].state = "suspended"
    /\ gens' = [gens EXCEPT ![g] =
          [line |-> @.line,
           state |-> IF @.pending = <<>> THEN "finished" ELSE "suspended",
           context |-> @.context,
           pending |-> IF @.pending = <<>> THEN <<>> ELSE Tail(@.pending)]]
    /\ UNCHANGED <<docvars, rulevars, regvars, instvars>>

NextLazy ==
    \/ \E text \in LazyLines : CallValidate(text)
    \/ \E g \in 1..MaxGens : StartGenerator(g)
    \/ \E g \in 1..MaxGens : ResumeGenerator(g)

SpecLazy == InitLazy /\ [][NextLazy]_vars

----------------------------------------------------------------------------
(* Properties of Validator.validate, checked under Spec *)

\* the validate call on the line is over, by a return or by an exception
Returned == pc \in {"done", "crashed"}

\* the chunks iterated over
ChunkTexts == [k \in 1..Len(evals) |-> evals[k].chunk]

\* the line starts with the begin (end) marker of the name
StartsWithBegin(name) == StartsWithAt(line, BeginLine(name), 0)
StartsWithEnd(name) == StartsWithAt(line, EndLine(name), 0)

\* C1: end markers with no begin marker before them never raise, never
\* leave the stack empty and leave the context at 'paragraph': an end marker
\* met on the base stack is a no-op.
C1_EndOnBaseStackIsNoOp ==
    (Returned /\ nbegin = 0 /\ nend >= 1 /\ \E n \in EnvNames : StartsWithEnd(n))
        => /\ err = "none"
           /\ envs # <<>>
           /\ envs = <<"paragraph">>

\* C2: the chunks validate iterates over, concatenated in order, are the
\* line, and the offset in effect for a chunk is the index the chunk starts
\* at in the line: 0 for the first, the lengths of the chunks before it
\* added up for the others.
C2_ChunksTileTheLine ==
    pc = "done" =>
        /\ Concat(ChunkTexts) = line
        /\ \A k \in 1..Len(evals) :
              /\ evals[k].offset = Len(Concat(SubSeq(ChunkTexts, 1, k - 1)))
              /\ Slice(line, evals[k].offset, evals[k].offset + Len(evals[k].chunk))
                    = evals[k].chunk
        /\ Len(evals) >= 1 /\ evals[1].offset = 0
        /\ \A k \in 2..Len(evals) :
              evals[k].offset = evals[k - 1].offset + Len(evals[k - 1].chunk)

\* a line of an 'unknown' environment split in five chunks, the math chunks
\* at offsets that are not 0
C2_Witness ==
    /\ pc = "done"
    /\ Top(envs) = "unknown"
    /\ Len(evals) = 5
    /\ evals[2].offset > 0
    /\ evals[4].offset > evals[3].offset

\* C3: every span yielded lies in the line, is the span the rule returned
\* for the chunk moved by the offset of that chunk, and marks in the line
\* the very text the rule matched in the chunk.
C3_SpansAreAbsolute ==
    pc = "done" =>
        \A i \in 1..Len(yielded) :
            LET y == yielded[i]
                e == evals[y.chunk]
            IN /\ 0 <= y.span[1] /\ y.span[1] <= y.span[2] /\ y.span[2] <= Len(line)
               /\ y.span = <<y.rel[1] + e.offset, y.rel[2] + e.offset>>
               /\ \E j \in 1..Len(Wrapper(RULES_LIST[y.rule], e.chunk, e.env).spans) :
                     Wrapper(RULES_LIST[y.rule], e.chunk, e.env).spans[j] = y.rel
               /\ Slice(line, y.span[1], y.span[2]) = Slice(e.chunk, y.rel[1], y.rel[2])

\* a violation found in the third chunk or later, away from the start of
\* that chunk and of the line
C3_Witness ==
    /\ pc = "done"
    /\ \E i \in 1..Len(yielded) :
          /\ yielded[i].chunk >= 3
          /\ yielded[i].rel[1] > 0
          /\ yielded[i].span[1] > yielded[i].rel[1]
          /\ yielded[i].span[2] > yielded[i].span[1]

\* the spans yielded for the k-th chunk and the rule at position r, in order
YieldedBy(k, r) ==
    LET sub == SelectSeq(yielded, LAMBDA y : y.chunk = k /\ y.rule = r)
    IN [j \in 1..Len(sub) |-> sub[j].rel]

\* C4: violations are yielded by chunk, from left to right, then by the
\* position of the rule in RULES_LIST, then in the order the rule returned
\* its spans.
C4_YieldOrder ==
    pc = "done" =>
        /\ \A i \in 1..Len(yielded) : \A j \in (i + 1)..Len(yielded) :
              \/ yielded[i].chunk < yielded[j].chunk
              \/ /\ yielded[i].chunk = yielded[j].chunk
                 /\ yielded[i].rule <= yielded[j].rule
        /\ \A r \in 1..Len(RULES_LIST) : RULES_LIST[r].id = r
        /\ \A k \in 1..Len(evals) : \A r \in 1..Len(RULES_LIST) :
              YieldedBy(k, r) = Wrapper(RULES_LIST[r], evals[k].chunk, evals[k].env).spans

\* one call that yields for two chunks, for two rules on one chunk and two
\* spans of one rule on one chunk
C4_Witness ==
    /\ pc = "done"
    /\ \E i, j \in 1..Len(yielded) :
          yielded[i].chunk < yielded[j].chunk
    /\ \E i, j \in 1..Len(yielded) :
          yielded[i].chunk = yielded[j].chunk /\ yielded[i].rule < yielded[j].rule
    /\ \E i, j \in 1..Len(yielded) :
          /\ i < j
          /\ yielded[i].chunk = yielded[j].chunk
          /\ yielded[i].rule = yielded[j].rule

MathNamesOfClaim ==
    { <<"m","a","t","h">>, <<"a","r","r","a","y">>,
      <<"e","q","n","a","r","r","a","y">>,
      <<"e","q","u","a","t","i","o","n">>, <<"a","l","i","g","n">> }
ParagraphNamesOfClaim ==
    { <<"a","b","s","t","r","a","c","t">>,
      <<"d","o","c","u","m","e","n","t">>,
      <<"t","i","t","l","e","p","a","g","e">> }
TagOfClaim(name) ==
    IF name \in MathNamesOfClaim THEN "math"
    ELSE IF name \in ParagraphNamesOfClaim THEN "paragraph"
    ELSE "unknown"

\* C6: a line that starts with \begin{NAME} pushes exactly one tag: 'math'
\* for math, array, eqnarray, equation and align, 'paragraph' for abstract,
\* document and titlepage, 'unknown' for any other name; the entries that
\* were on the stack stay as they were.
C6_BeginPushesOneTag ==
    Returned =>
        \A n \in EnvNames :
            StartsWithBegin(n) =>
                /\ Len(envs) = Len(before) + 1
                /\ SubSeq(envs, 1, Len(before)) = before
                /\ Top(envs) = TagOfClaim(n)
                /\ err = "none"

\* a third entry, 'unknown', pushed by a name outside the dictionary
C6_Witness ==
    /\ pc = "done"
    /\ StartsWithBegin(<<"f","i","g","u","r","e">>)
    /\ before = <<"paragraph", "math">>
    /\ envs = <<"paragraph", "math", "unknown">>

\* C7: a line that starts with \end{NAME} pops the top entry whatever NAME
\* is; while every prefix of the lines had at least as many begin lines as
\* end lines, the depth is 1 + begin lines - end lines and the bottom entry
\* is 'paragraph'.
C7_EndPopsTheTop ==
    /\ Returned =>
          \A n \in EnvNames :
              StartsWithEnd(n) =>
                  /\ before # <<>>
                  /\ envs = SubSeq(before, 1, Len(before) - 1)
                  /\ popped = before[Len(before)]
    /\ balanced =>
          /\ Len(envs) = 1 + nbegin - nend
          /\ envs[1] = "paragraph"

\* the entry a \begin{math} pushed is popped by \end{x}, one level below
\* another begin
C7_Witness ==
    /\ pc = "done"
    /\ StartsWithEnd(<<"x">>)
    /\ popped = "math"
    /\ balanced
    /\ nbegin = 2
    /\ nend = 1
    /\ Len(envs) = 2

\* C8: with 'math' on top of the stack the line is not split on the inline
\* math delimiters: the whole line is one chunk with context 'math' at
\* offset 0, every rule sees the line once, and nothing is evaluated in
\* another context.
C8_MathLineIsOneChunk ==
    (pc = "done" /\ Top(envs) = "math") =>
        /\ evals = << [chunk |-> <<>>, env |-> "math", offset |-> 0],
                      [chunk |-> line, env |-> "math", offset |-> 0] >>
        /\ Cardinality({ k \in 1..Len(evals) : evals[k].chunk = line }) = 1
        /\ \A i \in 1..Len(yielded) :
              yielded[i].chunk = 2 /\ yielded[i].span = yielded[i].rel
        /\ \A r \in 1..Len(RULES_LIST) :
              YieldedBy(2, r) = Wrapper(RULES_LIST[r], line, "math").spans

\* a line of two $$...$$ formulas in a math environment: one violation of
\* the $$ rule, at the start of the line
C8_Witness ==
    /\ pc = "done"
    /\ Top(envs) = "math"
    /\ line = <<"$","$","a","$","$","$","$","a","$","$">>
    /\ Len(yielded) = 1
    /\ yielded[1].span = <<0, 2>>

\* the context of the k-th of the chunks, the stack being stack
ContextOfChunk(stack, k) == IF k % 2 = 1 THEN stack[Len(stack)] ELSE "math"

\* C16: a line is split and evaluated after the tracker update made for it:
\* a line that starts with \begin{NAME} under the context just pushed (the
\* line \begin{equation} as math), a line that starts with \end{NAME} under
\* the context the pop exposed, not under that of the block it closes.
C16_UpdateBeforeEvaluation ==
    pc = "done" =>
        /\ \A k \in 1..Len(evals) : evals[k].env = ContextOfChunk(envs, k)
        /\ ChunkTexts = IF envs[Len(envs)] = "math" THEN << <<>>, line >>
                        ELSE math_env_regex_split(line)
        /\ \A n \in EnvNames :
              /\ StartsWithBegin(n) =>
                    /\ evals[1].env = TagOfClaim(n)
                    /\ TagOfClaim(n) = "math" =>
                          \A k \in 1..Len(evals) : evals[k].env = "math"
              /\ StartsWithEnd(n) =>
                    /\ Len(before) >= 2
                    /\ evals[1].env = before[Len(before) - 1]
        /\ StartsWithBegin(<<"e","q","u","a","t","i","o","n">>) =>
              evals = << [chunk |-> <<>>, env |-> "math", offset |-> 0],
                         [chunk |-> line, env |-> "math", offset |-> 0] >>

\* \end{math}" read inside a math block: the quotation mark after the
\* marker is reported, as prose
C16_Witness ==
    /\ pc = "done"
    /\ line = EndLine(<<"m","a","t","h">>) \o <<"\"">>
    /\ before = <<"paragraph", "math">>
    /\ envs = <<"paragraph">>
    /\ Len(yielded) = 1
    /\ RULES_LIST[yielded[1].rule].pattern = "check_double_quote"
    /\ yielded[1].span = <<10, 11>>

\* the line has, at index 0, the prefix, one or more \w characters and }
MarkerAtStart(prefix) ==
    \E n \in 1..Len(line) :
        /\ \A h \in 1..Len(prefix) : At(line, h - 1) = prefix[h]
        /\ \A h \in 0..(n - 1) : At(line, Len(prefix) + h) \in WordChars
        /\ At(line, Len(prefix) + n) = "}"

\* C17: validate on a line with no \begin{word} and no \end{word} at index
\* 0 leaves the stack as it was, also when such a marker comes after
\* leading whitespace or other text; every validate call changes the depth
\* of the stack by one at most.
C17_NoMarkerNoChange ==
    Returned =>
        /\ (~MarkerAtStart(BeginPrefix) /\ ~MarkerAtStart(EndPrefix)) =>
              /\ envs = before
              /\ pushed = "none"
              /\ popped = "none"
        /\ Len(envs) - Len(before) \in {-1, 0, 1}

\* inside a math block, a line with \end{math} after a space: the block
\* stays open
C17_Witness ==
    /\ pc = "done"
    /\ line = <<" ">> \o EndLine(<<"m","a","t","h">>)
    /\ before = <<"paragraph", "math">>
    /\ envs = <<"paragraph", "math">>

\* C19: for every violation reported, the text given to print_warning,
\* indexed by the span reported, is the text the rule matched in the line
\* given to validate; the excerpt printed holds that text at the index of
\* the carets, as many carets as it has characters, and the column printed
\* is the index of that text in the line; so for every line, lines with
\* leading whitespace too.
C19_WarningShowsTheMatch ==
    pc = "done" =>
        /\ Len(printed) = Len(yielded)
        /\ \A i \in 1..Len(yielded) :
              LET matched == Slice(evals[yielded[i].chunk].chunk,
                                   yielded[i].rel[1], yielded[i].rel[2])
                  w == printed[i]
              IN /\ PySlice(w.text, w.span[1], w.span[2]) = matched
                 /\ PySlice(w.excerpt, w.caret_index, w.caret_index + w.carets)
                       = matched
                 /\ w.carets = Len(matched)
                 /\ PySlice(line, w.column, w.column + Len(matched)) = matched

----------------------------------------------------------------------------
(* Properties of the rules, checked under SpecRules *)

\* the position in RULES_LIST of the rule a function was decorated into
RuleOf(f) == CHOOSE r \in 1..Len(RULES_LIST) : RULES_LIST[r].pattern = f

\* C5: a rule declared for one context, called with another context,
\* returns the empty sequence and does not run its pattern, whatever the
\* chunk; a rule declared for 'any' is run in every context.
C5_ContextFilter ==
    r_pc = "done" =>
        \A r \in r_rules :
            /\ (RULES_LIST[r].in_env # "any" /\ RULES_LIST[r].in_env # r_env)
                  => r_res[r] = [ran |-> FALSE, spans |-> <<>>]
            /\ RULES_LIST[r].in_env = "any" => r_res[r].ran
            /\ (RULES_LIST[r].in_env = "any" /\ StartsWithAt(r_text, BeginCenter, 0))
                  => r_res[r].spans = << <<0, Len(BeginCenter)>> >>

\* \begin{center}" in math context: the double quote rule, declared for
\* 'paragraph', is not run; the center rule, declared for 'any', matches
C5_Witness ==
    /\ r_pc = "done"
    /\ r_env = "math"
    /\ r_text = BeginCenter \o <<"\"">>
    /\ r_rules = 1..Len(RULES_LIST)
    /\ r_res[RuleOf("check_double_quote")] = [ran |-> FALSE, spans |-> <<>>]
    /\ r_res[RuleOf("check_begin_center")].spans = << <<0, Len(BeginCenter)>> >>

\* the indices of the quotation marks of the chunk
QuoteMarks == { i \in 0..(Len(r_text) - 1) : At(r_text, i) \in {"\"", "'"} }
\* a mark at the start of the chunk or after whitespace
IsOpener(i) == i = 0 \/ At(r_text, i - 1) \in SpaceChars
\* a mark at the end of the chunk or before whitespace
IsCloser(i) == i = Len(r_text) - 1 \/ At(r_text, i + 1) \in SpaceChars

\* the quote rules have been evaluated on the chunk as prose
QuotesEvaluated ==
    /\ r_pc = "done"
    /\ r_env = "paragraph"
    /\ {RuleOf("check_double_quote"), RuleOf("check_single_quote")} \subseteq r_rules

\* the violations of the two quote rules, in the order of the rules
QuoteViolations ==
    r_res[RuleOf("check_double_quote")].spans
        \o r_res[RuleOf("check_single_quote")].spans

\* the chunk has one quotation mark, at index i, that opens or closes
LoneMark(i) ==
    /\ QuoteMarks = {i}
    /\ IsOpener(i) # IsCloser(i)

\* C9, as claimed: an opening mark that is never closed, or a closing mark
\* with no opener pending, gives exactly one violation, at the mark's span.
C9_LoneMarkIsReported ==
    QuotesEvaluated =>
        \A i \in QuoteMarks :
            LoneMark(i) => QuoteViolations = << <<i, i + 1>> >>

\* C9, amended: an opening mark that is never closed, or a closing mark
\* with no opener pending, gives exactly one violation, at the mark's span,
\* when the mark is the double quote ", and no violation when it is the
\* single quote '.
C9_LoneDoubleMarkIsReported ==
    QuotesEvaluated =>
        \A i \in QuoteMarks :
            LoneMark(i) =>
                QuoteViolations =
                    IF At(r_text, i) = "\"" THEN << <<i, i + 1>> >> ELSE <<>>

\* an opening " that is never closed, reported at its span
C9_Witness ==
    /\ QuotesEvaluated
    /\ r_text = <<"a", " ", "\"", "a">>
    /\ LoneMark(2)
    /\ QuoteViolations = << <<2, 3>> >>

\* the chunk has two quotation marks: an opener at i, a closer at j
QuotePair(i, j) ==
    /\ QuoteMarks = {i, j}
    /\ i < j
    /\ IsOpener(i)
    /\ IsCloser(j)

\* C10, as claimed: an opener closed by a closer of its style gives no
\* violation; an opener closed by a closer of the other style gives exactly
\* one, at the opener's span.
C10_PairReportsMismatchAtOpener ==
    QuotesEvaluated =>
        \A i, j \in QuoteMarks :
            QuotePair(i, j) =>
                QuoteViolations =
                    IF At(r_text, i) = At(r_text, j) THEN <<>> ELSE << <<i, i + 1>> >>

\* the violation of the single quote rule for a pair of ' at i and j
SinglePairSpan(i, j) ==
    IF /\ At(r_text, i) = "'" /\ At(r_text, j) = "'"
       /\ At(r_text, i - 1) \in SpaceChars
       /\ j >= i + 2
       /\ \A h \in (i + 1)..(j - 1) : At(r_text, h) # "\n"
       /\ At(r_text, j + 1) \in SpaceChars \cup {".", ","}
    THEN << <<i - 1, j + 2>> >>
    ELSE <<>>

\* the violation of the double quote rule for a mark at i
DoubleMarkSpan(i) ==
    IF At(r_text, i) = "\"" THEN << <<i, i + 1>> >> ELSE <<>>

\* C10, amended: of an opener and its closer, each mark that is a double
\* quote " gives one violation at its own span, whatever the other mark is
\* ("..." gives two, "...' one at the opener, '..." one at the closer); a
\* pair '...' gives no violation, unless whitespace comes before the opener,
\* text between the marks and whitespace after the closer: then it gives
\* one, from that whitespace to the character after the closer.
C10_PairReportsStraightMarks ==
    QuotesEvaluated =>
        \A i, j \in QuoteMarks :
            QuotePair(i, j) =>
                QuoteViolations =
                    DoubleMarkSpan(i) \o DoubleMarkSpan(j) \o SinglePairSpan(i, j)

\* 'a' between spaces: one violation, over the spaces and the marks
C10_Witness ==
    /\ QuotesEvaluated
    /\ r_text = <<" ", "'", "a", "'", " ">>
    /\ QuotePair(1, 3)
    /\ QuoteViolations = << <<0, 5>> >>

----------------------------------------------------------------------------
(* The citation rule *)

\* the indices of the chunk where a period is followed by \cite{
PeriodCiteAt ==
    { i \in 0..(Len(r_text) - 1) :
        /\ At(r_text, i) = "."
        /\ \A j \in 1..6 : At(r_text, i + j) = <<"\\","c","i","t","e","{">>[j] }

\* the spans from the indices of a set, from left to right
RECURSIVE SpansFrom(_, _)
SpansFrom(S, n) ==
    IF S = {} THEN <<>>
    ELSE LET i == CHOOSE x \in S : \A y \in S : x <= y
         IN << <<i, i + n>> >> \o SpansFrom(S \ {i}, n)

\* the citation rule has been evaluated on the chunk as prose
CiteEvaluated ==
    /\ r_pc = "done"
    /\ r_env = "paragraph"
    /\ RuleOf("check_cite_after_period") \in r_rules

\* C11: in prose the citation-after-period rule reports one violation for
\* each period followed at once by \cite{, over exactly the 7 characters
\* .\cite{, and nothing else: one for 'Napoleonic war.\cite{smith08}', none
\* for 'Napoleonic war~\cite{smith08}.' and 'Napoleonic war\cite{smith08}.'.
C11_CiteAfterPeriod ==
    CiteEvaluated =>
        LET spans == r_res[RuleOf("check_cite_after_period")].spans IN
        /\ spans = SpansFrom(PeriodCiteAt, 7)
        /\ \A j \in 1..Len(spans) :
              Slice(r_text, spans[j][1], spans[j][2]) = PeriodCite
        /\ r_text = Sentence \o CiteAfterPeriod
              => spans = << <<Len(Sentence), Len(Sentence) + 7>> >>
        /\ r_text \in {Sentence \o CiteWithTie, Sentence \o CiteNoSpace}
              => spans = <<>>

\* two citations after periods in one chunk, reported from left to right
C11_Witness ==
    /\ CiteEvaluated
    /\ Cardinality(PeriodCiteAt) = 2
    /\ Len(r_res[RuleOf("check_cite_after_period")].spans) = 2
    /\ r_res[RuleOf("check_cite_after_period")].spans[1][1] = 0

----------------------------------------------------------------------------
(* The duplicate-word rule *)

\* r_text[i:j] is a lowercase word
IsWord(i, j) ==
    /\ i < j
    /\ \A h \in i..(j - 1) : At(r_text, h) \in LowerCase
    /\ At(r_text, i - 1) \notin WordChars
    /\ At(r_text, j) \notin WordChars

\* r_text[j:k] is whitespace
IsGap(j, k) ==
    /\ j < k
    /\ \A h \in j..(k - 1) : At(r_text, h) \in SpaceChars

\* two consecutive words, from i to q: <<i, j, k, q>> with the words at
\* i..j and k..q
AdjacentWords ==
    { p \in (0..Len(r_text)) \X (0..Len(r_text)) \X (0..Len(r_text)) \X (0..Len(r_text)) :
        IsWord(p[1], p[2]) /\ IsGap(p[2], p[3]) /\ IsWord(p[3], p[4]) }

\* the braces opened and not closed before index i
BraceDepth(i) ==
    Cardinality({ h \in 0..(i - 1) : At(r_text, h) = "{" })
        - Cardinality({ h \in 0..(i - 1) : At(r_text, h) = "}" })

\* every brace of the chunk is closed, and none is closed before it is opened
BracesBalanced ==
    /\ \A i \in 0..Len(r_text) : BraceDepth(i) >= 0
    /\ BraceDepth(Len(r_text)) = 0

\* how many times a span is in a sequence of spans
Count(spans, sp) == Cardinality({ n \in 1..Len(spans) : spans[n] = sp })

\* the duplicate-word rule has been evaluated, in its two forms, on a prose
\* chunk with balanced braces
WordsEvaluated ==
    /\ r_pc = "done"
    /\ r_env = "paragraph"
    /\ RuleOf("check_duplicate_word") \in r_rules
    /\ BracesBalanced

\* what a form of the rule has to return on the chunk
DuplicatesReported(spans) ==
    \A p \in AdjacentWords :
        IF Slice(r_text, p[1], p[2]) = Slice(r_text, p[3], p[4])
        THEN BraceDepth(p[1]) = 0 => Count(spans, <<p[1], p[4]>>) = 1
        ELSE Count(spans, <<p[1], p[4]>>) = 0

\* C12: on a prose chunk, two consecutive identical lowercase words
\* separated by whitespace, not inside braces, give exactly one violation
\* over both words, whatever comes before and after them, and two adjacent
\* words that differ give none; so for the rule with the equality predicate
\* and for the rule with the backreference.
C12_DuplicateWordBothForms ==
    WordsEvaluated =>
        /\ DuplicatesReported(r_old)
        /\ DuplicatesReported(r_res[RuleOf("check_duplicate_word")].spans)

----------------------------------------------------------------------------
(* Properties of the registry, checked under SpecImport *)

\* the ids of the list are 1, 2, ... in the order of the list
IdsArePositions ==
    /\ \A i \in 1..Len(rules_list) : rules_list[i].id = i
    /\ \A i, j \in 1..Len(rules_list) :
          i < j => rules_list[i].id < rules_list[j].id
    /\ Len(rules_list) = imp

\* a step leaves the list as it is or appends one rule to it
AppendsOnly ==
    \/ rules_list' = rules_list
    \/ /\ Len(rules_list') = Len(rules_list) + 1
       /\ SubSeq(rules_list', 1, Len(rules_list)) = rules_list

\* a decoration appends one rule
RegistrationAppends ==
    imp' # imp => (imp' = imp + 1 /\ Len(rules_list') = Len(rules_list) + 1)

\* a validate call leaves the list as it is
ValidateKeepsTheList ==
    (pc = "called" \/ pc' = "done") => rules_list' = rules_list

\* C13: after every registration, of a rule or of a row of a family, the
\* rule at 0-based position i of RULES_LIST has id i + 1; a registration
\* only appends to the list; validate changes neither the list nor an id.
C13_IdsFollowRegistration ==
    /\ []IdsArePositions
    /\ [][AppendsOnly /\ RegistrationAppends /\ ValidateKeepsTheList]_vars

\* every rule is registered and a validate call has yielded violations of
\* two rules, the one registered 11th and the one registered 13th
C13_Witness ==
    /\ pc = "done"
    /\ Len(rules_list) = Len(Decorations)
    /\ \E i, j \in 1..Len(yielded) :
          /\ yielded[i].rule = 11 /\ rules_list[11].pattern = "check_duplicate_word"
          /\ yielded[j].rule = 13 /\ rules_list[13].pattern = "check_double_quote"

\* the families of rules.py
Families ==
    {"check_incorrect_abbreviations", "check_obsolete_commands",
     "check_obsolete_packages", "check_obsolete_environments"}

\* the ranks in the module of the decorations of a family, the first of
\* them and their number
RanksOf(f) == { i \in 1..Len(Decorations) : Decorations[i].pattern = f }
FirstOf(f) == CHOOSE i \in RanksOf(f) : \A j \in RanksOf(f) : i <= j
RowsOf(f) == Cardinality(RanksOf(f))

\* the rules of the list generated for a family
GeneratedFor(f) == { i \in 1..Len(rules_list) : rules_list[i].pattern = f }

\* the docstring is the template of the family with the replacement of the
\* k-th row in the place of the field
IsFormatted(doc, f, k) ==
    /\ Len(doc) = Len(Template(f))
    /\ \A j \in 1..Len(doc) :
          IF Template(f)[j].kind = "field"
          THEN doc[j] = Piece("replacement", f, k)
          ELSE doc[j] = Template(f)[j]
    /\ \E j \in 1..Len(doc) : doc[j] = Piece("replacement", f, k)
    /\ doc # Template(f)
    /\ \A j \in 1..Len(doc) : \A k2 \in 1..RowsOf(f) :
          k2 # k => doc[j] # Piece("replacement", f, k2)

\* C14: a family of N rows appends N rules, one per row in the order the
\* table yields them, with consecutive ids; the k-th has the pattern of the
\* k-th row and, as docstring, the template of the family formatted with
\* the replacement of the k-th row.
C14_OneRulePerRow ==
    \A f \in Families :
        /\ imp < FirstOf(f) => GeneratedFor(f) = {}
        /\ imp >= FirstOf(f) + RowsOf(f) - 1
              => GeneratedFor(f) = FirstOf(f)..(FirstOf(f) + RowsOf(f) - 1)
        /\ \A k \in 1..RowsOf(f) :
              LET pos == FirstOf(f) + k - 1 IN
              imp >= pos =>
                  /\ rules_list[pos].id = pos
                  /\ Piece("pattern", rules_list[pos].pattern, rules_list[pos].row)
                        = TableRow(f, k)[1]
                  /\ IsFormatted(rules_list[pos].doc, f, k)

\* the five abbreviation rules are registered, after the 31 rules before
\* them; the third says: Should be "<the replacement of the third row>".
C14_Witness ==
    /\ pc = "import"
    /\ GeneratedFor("check_incorrect_abbreviations") = 32..36
    /\ imp = 36
    /\ rules_list[34].doc =
          << Piece("text", "Punctuate abbreviations correctly. Should be \"", 0),
             Piece("replacement", "check_incorrect_abbreviations", 3),
             Piece("text", "\".", 0) >>

----------------------------------------------------------------------------
(* Properties of the instances, checked under SpecInstances *)

RECURSIVE StackAlone(_, _, _)
\* the stack of one instance, alone, from the stack given, after the first
\* n lines
StackAlone(stack, lines, n) ==
    IF n = 0 THEN stack
    ELSE TrackerUpdate(StackAlone(stack, lines, n - 1), lines[n]).envs

\* the outcome of the last validate call of one instance, alone, given the
\* lines: its stack at the end, the exception it raised and what it yielded
RunAlone(lines) ==
    IF lines = <<>>
    THEN [envs |-> <<"paragraph">>, err |-> "none", yielded |-> <<>>]
    ELSE LET last == lines[Len(lines)]
             t == TrackerUpdate(StackAlone(<<"paragraph">>, lines, Len(lines) - 1), last)
             res == IF t.err = "none" THEN Evaluate(t.envs, last)
                    ELSE [err |-> t.err, loop |-> <<>>]
         IN [envs |-> t.envs, err |-> res.err, yielded |-> YieldedOf(res.loop)]

\* C15: however the validate calls on two instances are interleaved, each
\* instance has the stack, and its last call the outcome, that its own
\* lines give when run alone; an instance made for the next file starts at
\* ['paragraph'] whatever the instance of the file before it was left at.
C15_StacksArePerInstance ==
    \A v \in Instances :
        inst[v] # 0 =>
            \E alone \in { RunAlone(given[v]) } :
                /\ heap[inst[v]] = alone.envs
                /\ out[v] = [err |-> alone.err, yielded |-> alone.yielded]
                /\ given[v] = <<>> => heap[inst[v]] = <<"paragraph">>

\* A, the first instance made, is inside an unclosed math block and read
\* its quotation mark as math; B, the second, is at ['paragraph'] and read
\* its quotation mark as prose
C15_Witness ==
    /\ inst["A"] = 1 /\ inst["B"] = 2
    /\ given["A"] = << BeginLine(<<"m","a","t","h">>), <<"\"">> >>
    /\ given["B"] = << <<"\"">> >>
    /\ heap[1] = <<"paragraph", "math">>
    /\ heap[2] = <<"paragraph">>
    /\ out["A"].yielded = <<>>
    /\ Len(out["B"].yielded) = 1

----------------------------------------------------------------------------
(* Properties of the results of validate, checked under SpecLazy *)

\* the lines validate was called with, in the order of the calls
LinesCalled == [k \in 1..Len(gens) |-> gens[k].line]

\* C18: the tracker update for a line takes effect when validate(line) is
\* called: the stack is the one that the lines called so far give, in the
\* order of the calls, and a line is evaluated under the context that the
\* lines called up to it give, whether the results are iterated at once,
\* later, partly, in another order or never.
C18_UpdateAtCallTime ==
    /\ envs = StackAlone(<<"paragraph">>, LinesCalled, Len(gens))
    /\ \A k \in 1..Len(gens) :
          gens[k].context # "none" =>
              gens[k].context = Top(StackAlone(<<"paragraph">>, LinesCalled, k))

====
